---- MODULE Spec2Model ----
(***************************************************************************)
(* The two library-assembly scripts of the repository as state machines:   *)
(*   generate_jeff33.py  (script = "jeff"): argument handling, the         *)
(*       download and extraction phases, the multiprocessing pool of       *)
(*       process_neutron tasks, glob-based registration and export;        *)
(*   make_test_data.py   (script = "test"): download, extraction, ZAID     *)
(*       fixups, the neutron / thermal / photon conversions, the           *)
(*       WMP_Library move, registration, export, tarball and cleanup of    *)
(*       the temporary directory, and a second invocation afterwards;      *)
(*   fix_zaid            (script = "fix"): the text replacement alone,     *)
(*       on bounded texts.                                                 *)
(* A path is a triple <<root, dir, name>>.  Roots: "endf" (endf_files_dir) *)
(* and "dest" (args.destination) for generate_jeff33; "tmp" (the           *)
(* TemporaryDirectory) and "out" (output_dir = nndc_hdf5) for              *)
(* make_test_data.                                                         *)
(***************************************************************************)
EXTENDS Integers, Sequences, FiniteSets, TLC

VARIABLES
    script,     \* which script runs: "jeff", "test" or "fix"
    pc,         \* position of the main program
    err,        \* "" or the exception that ended the run
    args,       \* generate_jeff33: the parsed command line
    files,      \* make_test_data: the archive table (lines 25-32)
    disk,       \* the set of paths that exist
    content,    \* text of the tsl tables fix_zaid rewrites
    todo,       \* what is left of the list the current for loop iterates
    i,          \* index of the current counted loop
    results,    \* generate_jeff33: the list of AsyncResult, by input file
    task,       \* generate_jeff33: state of each submitted task
    library,    \* the DataLibrary: registered paths, in order
    xml,        \* entries of the exported cross_sections.xml
    exports,    \* number of export_to_xml calls so far
    nreg,       \* number of register_file calls so far
    last,       \* kind of the most recent step
    seen,       \* kinds of step taken so far in this run
    after,      \* <<x, y>>: a step of kind y was taken after one of kind x
    run,        \* make_test_data: 1 for the first invocation, 2 for the next
    transfers,  \* network transfers made in this run
    prev,       \* how the previous run ended, and its manifest
    fixin       \* fix_zaid alone: the arguments and the text before the call

vars == <<script, pc, err, args, files, disk, content, todo, i, results, task,
          library, xml, exports, nreg, last, seen, after, run, transfers,
          prev, fixin>>

(***************************************************************************)
(* Bounds of the model.                                                    *)
(***************************************************************************)
\* worker processes of Pool() (os.cpu_count() in the program)
NumWorkers == 2
\* atomic numbers the photon loop visits (range(1, 101) in the program)
MaxZ == 2
\* invocations of make_test_data in one behaviour
MaxRuns == 2
\* longest text handed to fix_zaid alone
MaxText == 4

(***************************************************************************)
(* Names, and the order sorted() gives them (ASCII, as Python compares).   *)
(***************************************************************************)
AllNames ==
    << "001001.h5", "092235.h5", "1-H-1g.jeff33", "8-O-16g.jeff33",
       "H1.ace", "H1.h5", "O16.h5", "U235.ace", "U235.h5",
       "bebeo.acer", "c_Be_in_BeO.h5", "c_O_in_BeO.h5", "obeo.acer",
       "tsl-HinH2O.h5", "tsl-HinH2O.jeff33", "tsl-HinIce.h5",
       "tsl-HinIce.jeff33", "tsl-OinD2O.h5", "tsl-OinD2O.jeff33" >>

Pos(n) == CHOOSE k \in 1..Len(AllNames) : AllNames[k] = n

RECURSIVE Sorted(_)
\* sorted(paths): the paths of one directory in ascending order of name
Sorted(S) ==
    IF S = {} THEN << >>
    ELSE LET m == CHOOSE x \in S : \A y \in S : Pos(x[3]) <= Pos(y[3])
         IN  <<m>> \o Sorted(S \ {m})

Range(s) == {s[k] : k \in 1..Len(s)}

\* the bookkeeping of step kinds: y is taken now
Mark(y) ==
    /\ last' = y
    /\ seen' = seen \cup {y}
    /\ after' = after \cup {<<x, y>> : x \in seen}

NoMark == UNCHANGED <<last, seen, after>>

(***************************************************************************)
(* generate_jeff33.py                                                      *)
(***************************************************************************)
\* evaluation files that may lie under endf_files_dir
EvalFiles ==
    {"1-H-1g.jeff33", "8-O-16g.jeff33",
     "tsl-HinH2O.jeff33", "tsl-HinIce.jeff33", "tsl-OinD2O.jeff33"}

\* release_details['33']['neutron']['sab_files'], for the files above
sab_files ==
    { <<"1-H-1g.jeff33", "tsl-HinH2O.jeff33">>,
      <<"1-H-1g.jeff33", "tsl-HinIce.jeff33">>,
      <<"8-O-16g.jeff33", "tsl-OinD2O.jeff33">> }

\* attributes of the Namespace parse_args() returns: the dest of every
\* add_argument call and of set_defaults.  There is no 'release' among them:
\* the script as written ends at line 54 with AttributeError.  The model
\* also runs the script with the attribute present, which is the only way
\* any line after 54 runs.
NamespaceAttrs ==
    {"destination", "download", "extract", "libver", "temperatures", "tmpdir"}

Initial(f) ==
    CASE f = "1-H-1g.jeff33" -> "1"
      [] f = "8-O-16g.jeff33" -> "8"
      [] OTHER -> "t"

Ord(c) ==
    CASE c = "1" -> 49
      [] c = "8" -> 56
      [] c = "t" -> 116

\* the character class [aA-zZ] of the rglob pattern: 'a', 'A'..'z', 'Z'
InClass(c) == Ord(c) = 97 \/ (Ord(c) >= 65 /\ Ord(c) <= 122) \/ Ord(c) = 90

\* endf_files_dir.rglob('[aA-zZ]*.jeff33'), evaluated when sorted() reads it
neutron_files ==
    {p \in disk : p[1] = "endf" /\ InClass(Initial(p[3]))}

\* the file process_neutron(filename, destination, libver) writes
H5Name(f) ==
    CASE f = "1-H-1g.jeff33" -> "H1.h5"
      [] f = "8-O-16g.jeff33" -> "O16.h5"
      [] f = "tsl-HinH2O.jeff33" -> "tsl-HinH2O.h5"
      [] f = "tsl-HinIce.jeff33" -> "tsl-HinIce.h5"
      [] f = "tsl-OinD2O.jeff33" -> "tsl-OinD2O.h5"

\* .h5 files a destination may hold before the run
StaleFiles == {"H1.h5", "tsl-HinH2O.h5"}

Abort(e) ==
    /\ pc' = "aborted"
    /\ err' = e

Finished(f) == task[f] \in {"ok", "failed"}

\* a wait that returns at once, whatever the state of the task
WaitReturnsAtOnce(k) == TRUE

\* AsyncResult.wait() of results[k] returns
WaitReturns(k) == Finished(results[k][3])

Running == {f \in EvalFiles : task[f] = "running"}

\* (args.destination).glob('*.h5')
DestGlob == {p \in disk : p[1] = "dest" /\ p[3] # "cross_sections.xml"}

\* the paths the registration loop of generate_jeff33 visits
JeffRegisterList == Sorted(DestGlob)

JeffVars == <<script, args, files, content, run, transfers, prev, fixin>>

\* lines 49-56: args.release is read to build endf_files_dir
JPaths ==
    /\ script = "jeff" /\ pc = "j_paths"
    /\ IF "release" \in args.attrs
         THEN pc' = "j_download" /\ err' = err
         ELSE Abort("AttributeError")
    /\ NoMark
    /\ UNCHANGED <<JeffVars, disk, todo, i, results, task, library, xml,
                   exports, nreg>>

\* lines 105-109: release_details[release] has the one key 'neutron'
JDownload ==
    /\ script = "jeff" /\ pc = "j_download"
    /\ IF args.download
         THEN Abort("KeyError")
         ELSE pc' = "j_extract" /\ err' = err
    /\ NoMark
    /\ UNCHANGED <<JeffVars, disk, todo, i, results, task, library, xml,
                   exports, nreg>>

\* lines 113-117
JExtract ==
    /\ script = "jeff" /\ pc = "j_extract"
    /\ IF args.extract
         THEN Abort("KeyError")
         ELSE pc' = "j_mkdir" /\ err' = err
    /\ NoMark
    /\ UNCHANGED <<JeffVars, disk, todo, i, results, task, library, xml,
                   exports, nreg>>

\* lines 122-129: mkdir of the destination, Pool(), sorted(neutron_files)
JMkdir ==
    /\ script = "jeff" /\ pc = "j_mkdir"
    /\ IF args.destination = "None"
         THEN Abort("AttributeError") /\ todo' = todo
         ELSE pc' = "j_submit" /\ err' = err /\ todo' = Sorted(neutron_files)
    /\ NoMark
    /\ UNCHANGED <<JeffVars, disk, i, results, task, library, xml, exports,
                   nreg>>

\* lines 129-133: one apply_async per file; the loop ends into line 135
JSubmit ==
    /\ script = "jeff" /\ pc = "j_submit"
    /\ IF todo # << >>
         THEN /\ results' = Append(results, Head(todo))
              /\ task' = [task EXCEPT ![Head(todo)[3]] = "queued"]
              /\ todo' = Tail(todo)
              /\ UNCHANGED <<pc, i>>
              /\ Mark("convert")
         ELSE /\ pc' = "j_wait"
              /\ i' = 1
              /\ UNCHANGED <<results, task, todo>>
              /\ NoMark
    /\ UNCHANGED <<JeffVars, err, disk, library, xml, exports, nreg>>

\* lines 135-136: r.wait() for each result in turn; it returns no value and
\* raises nothing, whatever the task did
JWait ==
    /\ script = "jeff" /\ pc = "j_wait"
    /\ IF i <= Len(results)
         THEN /\ WaitReturns(i)
              /\ i' = i + 1
              /\ pc' = pc
         ELSE /\ pc' = "j_exit"
              /\ i' = i
    /\ NoMark
    /\ UNCHANGED <<JeffVars, err, disk, todo, results, task, library, xml,
                   exports, nreg>>

\* line 127, leaving the with block: Pool.__exit__ calls terminate();
\* lines 139-142: a new DataLibrary and the sorted glob of the destination
JExit ==
    /\ script = "jeff" /\ pc = "j_exit"
    /\ task' = [f \in EvalFiles |->
                  IF task[f] \in {"queued", "running"} THEN "terminated"
                  ELSE task[f]]
    /\ library' = << >>
    /\ todo' = JeffRegisterList
    /\ pc' = "j_register"
    /\ NoMark
    /\ UNCHANGED <<JeffVars, err, disk, i, results, xml, exports, nreg>>

\* lines 142-143: register_file(p) reads p and appends its entry
JRegister ==
    /\ script = "jeff" /\ pc = "j_register"
    /\ IF todo # << >>
         THEN IF Head(todo) \in disk
                THEN /\ library' = Append(library, Head(todo))
                     /\ nreg' = nreg + 1
                     /\ todo' = Tail(todo)
                     /\ UNCHANGED <<pc, err>>
                     /\ Mark("register")
                ELSE /\ Abort("FileNotFoundError")
                     /\ UNCHANGED <<library, nreg, todo>>
                     /\ NoMark
         ELSE /\ pc' = "j_export"
              /\ UNCHANGED <<library, nreg, todo, err>>
              /\ NoMark
    /\ UNCHANGED <<JeffVars, disk, i, results, task, xml, exports>>

\* line 146
JExport ==
    /\ script = "jeff" /\ pc = "j_export"
    /\ xml' = library
    /\ exports' = exports + 1
    /\ disk' = disk \cup {<<"dest", "", "cross_sections.xml">>}
    /\ pc' = "done"
    /\ Mark("export")
    /\ UNCHANGED <<JeffVars, err, todo, i, results, task, library, nreg>>

PoolAlive == script = "jeff" /\ pc \in {"j_submit", "j_wait", "j_exit"}

\* a worker process takes the oldest queued task
WStart ==
    /\ PoolAlive
    /\ Cardinality(Running) < NumWorkers
    /\ \E k \in 1..Len(results) :
         /\ task[results[k][3]] = "queued"
         /\ \A j \in 1..(k - 1) : task[results[j][3]] # "queued"
         /\ task' = [task EXCEPT ![results[k][3]] = "running"]
    /\ Mark("convert")
    /\ UNCHANGED <<JeffVars, pc, err, disk, todo, i, results, library, xml,
                   exports, nreg>>

\* process_neutron returns: its .h5 file is in the destination
WDone ==
    /\ PoolAlive
    /\ \E f \in Running :
         /\ task' = [task EXCEPT ![f] = "ok"]
         /\ disk' = disk \cup {<<"dest", "", H5Name(f)>>}
    /\ Mark("convert")
    /\ UNCHANGED <<JeffVars, pc, err, todo, i, results, library, xml,
                   exports, nreg>>

\* process_neutron raises: the exception is stored in the AsyncResult
WFail ==
    /\ PoolAlive
    /\ \E f \in Running : task' = [task EXCEPT ![f] = "failed"]
    /\ Mark("convert")
    /\ UNCHANGED <<JeffVars, pc, err, disk, todo, i, results, library, xml,
                   exports, nreg>>

JeffNext ==
    \/ JPaths \/ JDownload \/ JExtract \/ JMkdir \/ JSubmit \/ JWait
    \/ JExit \/ JRegister \/ JExport \/ WStart \/ WDone \/ WFail

(***************************************************************************)
(* make_test_data.py                                                       *)
(***************************************************************************)
\* the archive table of lines 25-32: the name without its last suffix, the
\* last suffix (Path(f).suffix), and the format of the archive itself
ShippedFiles ==
    << [stem |-> "ENDF-B-VII.1-neutron-293.6K.tar", suffix |-> ".gz"],
       [stem |-> "ENDF-B-VII.1-tsl.tar", suffix |-> ".gz"],
       [stem |-> "ENDF-B-VII.1-neutrons", suffix |-> ".zip"],
       [stem |-> "ENDF-B-VII.1-photoat", suffix |-> ".zip"],
       [stem |-> "ENDF-B-VII.1-atomic_relax", suffix |-> ".zip"],
       [stem |-> "WMP_Library_v1.1.tar", suffix |-> ".gz"] >>

NumFiles == Len(ShippedFiles)

\* an archive table like the shipped one, where some archives carry a
\* suffix the extraction loop has no branch for (".tgz", the suffix of the
\* archives generate_jeff33 names)
FileTables ==
    { [k \in 1..NumFiles |->
         [stem |-> ShippedFiles[k].stem,
          suffix |-> IF k \in U THEN ".tgz" ELSE ShippedFiles[k].suffix]] :
      U \in SUBSET (1..NumFiles) }

\* 'tsl' in f
HasTsl(stem) == stem = "ENDF-B-VII.1-tsl.tar"

ATOMIC_SYMBOL == <<"H", "He", "Li", "Be">>

PhotoName == <<"photoat-001_H_000.endf", "photoat-002_He_000.endf",
               "photoat-003_Li_000.endf", "photoat-004_Be_000.endf">>

AtomName == <<"atom-001_H_000.endf", "atom-002_He_000.endf",
              "atom-003_Li_000.endf", "atom-004_Be_000.endf">>

PhotonH5 == <<"H.h5", "He.h5", "Li.h5", "Be.h5">>

\* the members of each archive, as <<dir, name>> relative to where it is
\* extracted
Members(stem) ==
    CASE stem = "ENDF-B-VII.1-neutron-293.6K.tar" ->
            { <<"ENDF-B-VII.1-neutron-293.6K", "H1.ace">>,
              <<"ENDF-B-VII.1-neutron-293.6K", "U235.ace">> }
      [] stem = "ENDF-B-VII.1-tsl.tar" ->
            { <<"", "bebeo.acer">>, <<"", "obeo.acer">> }
      [] stem = "ENDF-B-VII.1-neutrons" ->
            { <<"neutrons", "n-001_H_001.endf">>,
              <<"neutrons", "n-092_U_235.endf">> }
      [] stem = "ENDF-B-VII.1-photoat" ->
            { <<"photoat", PhotoName[z]>> : z \in 1..MaxZ }
      [] stem = "ENDF-B-VII.1-atomic_relax" ->
            { <<"atomic_relax", AtomName[z]>> : z \in 1..MaxZ }
      [] stem = "WMP_Library_v1.1.tar" ->
            { <<"WMP_Library", "001001.h5">>, <<"WMP_Library", "092235.h5">> }

Tables == {"bebeo.acer", "obeo.acer"}

\* the text of the two tables as the tsl archive holds them
TslText ==
    [t \in Tables |-> <<"4", "0", "0", "9", "8", "0", "1", "6">>]

NoContent == [t \in Tables |-> << >>]

\* 'neutrons/n-{:03}_{}_{:03}{}.endf' for the nuclide of an ACE file
EndfName(ace) ==
    CASE ace = "H1.ace" -> "n-001_H_001.endf"
      [] ace = "U235.ace" -> "n-092_U_235.endf"

\* data.name + '.h5'
DataH5(ace) ==
    CASE ace = "H1.ace" -> "H1.h5"
      [] ace = "U235.ace" -> "U235.h5"
      [] ace = "bebeo.acer" -> "c_Be_in_BeO.h5"
      [] ace = "obeo.acer" -> "c_O_in_BeO.h5"

\* data.name + '.h5' alone, a path relative to the working directory
OutfileRelative(ace) == <<"tmp", "", DataH5(ace)>>

\* output_dir / (data.name + '.h5')
Outfile(ace) == <<"out", "", DataH5(ace)>>

\* output_dir / 'photon' / (element + '.h5')
PhotonOutfile(z) == <<"out", "photon", PhotonH5[z]>>

\* str(output_dir / 'wmp'), the directory WMP_Library is moved to
WmpDir == <<"out", "wmp">>

\* glob.glob('{}/wmp/*.h5'.format(output_dir))
WmpGlob == {p \in disk : p[1] = "out" /\ p[2] = "wmp"}

(***************************************************************************)
(* fix_zaid: str.find and str.replace(old, new, 1) on sequences of         *)
(* characters.                                                             *)
(***************************************************************************)
RECURSIVE FindFrom(_, _, _)
\* the first index >= k at which old occurs in text, 0 when there is none
FindFrom(text, old, k) ==
    IF k + Len(old) - 1 > Len(text) THEN 0
    ELSE IF SubSeq(text, k, k + Len(old) - 1) = old THEN k
    ELSE FindFrom(text, old, k + 1)

RECURSIVE ReplaceAll(_, _, _)
\* text.replace(old, new): every occurrence, left to right
ReplaceAll(text, old, new) ==
    LET k == FindFrom(text, old, 1)
    IN  IF k = 0 \/ old = << >> THEN text
        ELSE SubSeq(text, 1, k - 1) \o new
               \o ReplaceAll(SubSeq(text, k + Len(old), Len(text)), old, new)

\* text.replace(old, new, 1)
Replace1(text, old, new) ==
    LET k == FindFrom(text, old, 1)
    IN  IF k = 0 THEN text
        ELSE SubSeq(text, 1, k - 1) \o new
               \o SubSeq(text, k + Len(old), Len(text))

\* os.path.join('tsl', table)
TslPath(table) == <<"tmp", "tsl", table>>

\* what is left when the TemporaryDirectory is removed
TmpGone == {p \in disk : p[1] # "tmp"}

\* an exception leaves the with block: the temporary directory is removed
TAbort(e) ==
    /\ pc' = "aborted"
    /\ err' = e
    /\ disk' = TmpGone
    /\ content' = NoContent

TestFixed == <<script, args, files, results, task, run, prev, fixin>>

\* the program order with export_to_xml placed before the WMP block
TestOrderExportEarly ==
    << "t_start", "t_download", "t_extract", "t_fix1", "t_fix2", "t_library",
       "t_neutron", "t_thermal", "t_photon", "t_export", "t_rename",
       "t_wmp_reg", "t_tar" >>

\* the statements of the with block of make_test_data in program order
\* (lines 50, 54, 60, 76, 77, 79, 85, 116, 130, 148, 151, 155, 160)
TestOrder ==
    << "t_start", "t_download", "t_extract", "t_fix1", "t_fix2", "t_library",
       "t_neutron", "t_thermal", "t_photon", "t_rename", "t_wmp_reg",
       "t_export", "t_tar" >>

\* the statement after statement p; after the last, the script ends
NextPc(p) ==
    LET k == CHOOSE n \in 1..Len(TestOrder) : TestOrder[n] = p
    IN  IF k = Len(TestOrder) THEN "done" ELSE TestOrder[k + 1]

\* a statement is done: on to the next, no loop open (i = 0)
Leave ==
    /\ pc' = NextPc(pc)
    /\ i' = 0
    /\ todo' = << >>

\* lines 44-50
TStart ==
    /\ script = "test" /\ pc = "t_start"
    /\ Leave
    /\ NoMark
    /\ UNCHANGED <<TestFixed, err, disk, content, library, xml, exports,
                   nreg, transfers>>

\* download(url, checksum) into the working directory: it skips a file that
\* is there with the right checksum, and fails on a network or checksum
\* error
Download(f) ==
    IF <<"tmp", "", f.stem>> \in disk
      THEN /\ i' = i + 1
           /\ UNCHANGED <<pc, err, disk, content, transfers>>
      ELSE \E ok \in BOOLEAN :
             /\ transfers' = transfers + 1
             /\ IF ok
                  THEN /\ disk' = disk \cup {<<"tmp", "", f.stem>>}
                       /\ i' = i + 1
                       /\ UNCHANGED <<pc, err, content>>
                  ELSE TAbort("TransferError") /\ i' = i

\* lines 54-55
TDownload ==
    /\ script = "test" /\ pc = "t_download"
    /\ IF i = 0
         THEN i' = 1 /\ UNCHANGED <<pc, err, disk, content, transfers, todo>>
       ELSE IF i <= NumFiles
         THEN Download(files[i]) /\ todo' = todo
       ELSE Leave /\ UNCHANGED <<err, disk, content, transfers>>
    /\ IF i \in 1..NumFiles THEN Mark("download") ELSE NoMark
    /\ UNCHANGED <<TestFixed, library, xml, exports, nreg>>

\* where the members of archive f land: tgz.extractall(path='tsl') or
\* extractall()
Extracted(f) ==
    { <<"tmp", IF HasTsl(f.stem) THEN "tsl" ELSE m[1], m[2]>> :
      m \in Members(f.stem) }

\* the suffixes the loop of lines 60-70 has a branch for
Supported(f) == f.suffix \in {".gz", ".zip"}

\* lines 61-70, one archive: the branch taken for its suffix
ExtractOne(f) ==
    IF Supported(f)
      THEN IF <<"tmp", "", f.stem>> \in disk
             THEN /\ disk' = disk \cup Extracted(f)
                  /\ content' = IF HasTsl(f.stem) THEN TslText ELSE content
                  /\ i' = i + 1
                  /\ UNCHANGED <<pc, err>>
             ELSE TAbort("FileNotFoundError") /\ i' = i
      ELSE /\ i' = i + 1
           /\ UNCHANGED <<pc, err, disk, content>>

\* lines 60-70
TExtract ==
    /\ script = "test" /\ pc = "t_extract"
    /\ IF i = 0
         THEN i' = 1 /\ UNCHANGED <<pc, err, disk, content, todo>>
       ELSE IF i <= NumFiles
         THEN ExtractOne(files[i]) /\ todo' = todo
       ELSE Leave /\ UNCHANGED <<err, disk, content>>
    /\ IF i \in 1..NumFiles THEN Mark("extract") ELSE NoMark
    /\ UNCHANGED <<TestFixed, library, xml, exports, nreg, transfers>>

\* fix_zaid(table, old, new), lines 35-41; the caller goes on at nextpc
FixZaid(table, old, new, nextpc) ==
    IF TslPath(table) \in disk
      THEN /\ content' = [content EXCEPT ![table] = Replace1(@, old, new)]
           /\ pc' = nextpc
           /\ UNCHANGED <<err, disk>>
      ELSE TAbort("FileNotFoundError")

\* line 76
TFix1 ==
    /\ script = "test" /\ pc = "t_fix1"
    /\ FixZaid("bebeo.acer", <<"8", "0", "1", "6">>, <<" ", " ", " ", "0">>,
               NextPc(pc))
    /\ Mark("fix")
    /\ UNCHANGED <<TestFixed, todo, i, library, xml, exports, nreg,
                   transfers>>

\* line 77
TFix2 ==
    /\ script = "test" /\ pc = "t_fix2"
    /\ FixZaid("obeo.acer", <<"4", "0", "0", "9">>, <<" ", " ", " ", "0">>,
               NextPc(pc))
    /\ Mark("fix")
    /\ UNCHANGED <<TestFixed, todo, i, library, xml, exports, nreg,
                   transfers>>

\* line 79: library = openmc.data.DataLibrary()
TLibrary ==
    /\ script = "test" /\ pc = "t_library"
    /\ library' = << >>
    /\ Leave
    /\ NoMark
    /\ UNCHANGED <<TestFixed, err, disk, content, xml, exports, nreg,
                   transfers>>

\* sorted(glob.glob(dir + '/*')) in the working directory
TmpGlob(dir) == Sorted({p \in disk : p[1] = "tmp" /\ p[2] = dir})

\* lines 84-107: the sorted glob, then one ACE file at a time is converted
\* and written to its outfile; from_ace may fail on the table, Evaluation
\* needs the ENDF file
TNeutron ==
    /\ script = "test" /\ pc = "t_neutron"
    /\ IF i = 0
         THEN /\ todo' = TmpGlob("ENDF-B-VII.1-neutron-293.6K")
              /\ i' = 1
              /\ UNCHANGED <<pc, err, disk, content>>
       ELSE IF todo # << >>
         THEN /\ \E ok \in BOOLEAN :
                   IF ~ok
                     THEN TAbort("ConversionError")
                   ELSE IF <<"tmp", "neutrons", EndfName(Head(todo)[3])>>
                             \notin disk
                     THEN TAbort("FileNotFoundError")
                   ELSE /\ disk' = disk \cup {Outfile(Head(todo)[3])}
                        /\ pc' = "t_neutron_reg"
                        /\ UNCHANGED <<err, content>>
              /\ UNCHANGED <<i, todo>>
       ELSE Leave /\ UNCHANGED <<err, disk, content>>
    /\ IF i # 0 /\ todo # << >> THEN Mark("convert") ELSE NoMark
    /\ UNCHANGED <<TestFixed, library, xml, exports, nreg, transfers>>

\* register_file given the bare file name, which resolves against the
\* working directory, without reading the file
RegisterBareName(outfile, nextpc) ==
    /\ library' = Append(library, <<"tmp", "", outfile[3]>>)
    /\ nreg' = nreg + 1
    /\ pc' = nextpc
    /\ UNCHANGED <<err, disk, content>>

\* library.register_file(outfile): the file is read, its entry appended
Register(outfile, nextpc) ==
    IF outfile \in disk
      THEN /\ library' = Append(library, outfile)
           /\ nreg' = nreg + 1
           /\ pc' = nextpc
           /\ UNCHANGED <<err, disk, content>>
      ELSE /\ TAbort("FileNotFoundError")
           /\ UNCHANGED <<library, nreg>>

\* line 110
TNeutronReg ==
    /\ script = "test" /\ pc = "t_neutron_reg"
    /\ Register(Outfile(Head(todo)[3]), "t_neutron")
    /\ todo' = Tail(todo)
    /\ Mark("register")
    /\ UNCHANGED <<TestFixed, i, xml, exports, transfers>>

\* lines 115-122
TThermal ==
    /\ script = "test" /\ pc = "t_thermal"
    /\ IF i = 0
         THEN /\ todo' = TmpGlob("tsl")
              /\ i' = 1
              /\ UNCHANGED <<pc, err, disk, content>>
       ELSE IF todo # << >>
         THEN /\ \E ok \in BOOLEAN :
                   IF ~ok
                     THEN TAbort("ConversionError")
                     ELSE /\ disk' = disk \cup {Outfile(Head(todo)[3])}
                          /\ pc' = "t_thermal_reg"
                          /\ UNCHANGED <<err, content>>
              /\ UNCHANGED <<i, todo>>
       ELSE Leave /\ UNCHANGED <<err, disk, content>>
    /\ IF i # 0 /\ todo # << >> THEN Mark("convert") ELSE NoMark
    /\ UNCHANGED <<TestFixed, library, xml, exports, nreg, transfers>>

\* line 125
TThermalReg ==
    /\ script = "test" /\ pc = "t_thermal_reg"
    /\ Register(Outfile(Head(todo)[3]), "t_thermal")
    /\ todo' = Tail(todo)
    /\ Mark("register")
    /\ UNCHANGED <<TestFixed, i, xml, exports, transfers>>

\* lines 130-141, for z = i: from_endf reads the two ENDF files
TPhoton ==
    /\ script = "test" /\ pc = "t_photon"
    /\ IF i = 0
         THEN i' = 1 /\ UNCHANGED <<pc, err, disk, content, todo>>
       ELSE IF i <= MaxZ
         THEN /\ \E ok \in BOOLEAN :
                   IF ~ok
                     THEN TAbort("ConversionError")
                   ELSE IF \/ <<"tmp", "photoat", PhotoName[i]>> \notin disk
                           \/ <<"tmp", "atomic_relax", AtomName[i]>>
                                \notin disk
                     THEN TAbort("FileNotFoundError")
                   ELSE /\ disk' = disk \cup {PhotonOutfile(i)}
                        /\ pc' = "t_photon_reg"
                        /\ UNCHANGED <<err, content>>
              /\ UNCHANGED <<i, todo>>
       ELSE Leave /\ UNCHANGED <<err, disk, content>>
    /\ IF i \in 1..MaxZ THEN Mark("convert") ELSE NoMark
    /\ UNCHANGED <<TestFixed, library, xml, exports, nreg, transfers>>

\* line 142
TPhotonReg ==
    /\ script = "test" /\ pc = "t_photon_reg"
    /\ Register(PhotonOutfile(i), "t_photon")
    /\ i' = i + 1
    /\ todo' = todo
    /\ Mark("register")
    /\ UNCHANGED <<TestFixed, xml, exports, transfers>>

\* the files of the extracted WMP_Library directory
WmpSource == {p \in disk : p[1] = "tmp" /\ p[2] = "WMP_Library"}

\* line 148: os.rename('WMP_Library', target) needs the source, and a
\* target directory that is absent or empty
TRename ==
    /\ script = "test" /\ pc = "t_rename"
    /\ IF WmpSource = {}
         THEN TAbort("FileNotFoundError") /\ UNCHANGED <<i, todo>>
       ELSE IF {p \in disk : p[1] = WmpDir[1] /\ p[2] = WmpDir[2]} # {}
         THEN TAbort("OSError") /\ UNCHANGED <<i, todo>>
       ELSE /\ disk' = (disk \ WmpSource)
                         \cup {<<WmpDir[1], WmpDir[2], p[3]>> : p \in WmpSource}
            /\ Leave
            /\ UNCHANGED <<err, content>>
    /\ Mark("move")
    /\ UNCHANGED <<TestFixed, library, xml, exports, nreg, transfers>>

\* lines 151-153
TWmpReg ==
    /\ script = "test" /\ pc = "t_wmp_reg"
    /\ IF i = 0
         THEN /\ todo' = Sorted(WmpGlob)
              /\ i' = 1
              /\ UNCHANGED <<pc, err, disk, content, library, nreg>>
       ELSE IF todo # << >>
         THEN /\ Register(Head(todo), "t_wmp_reg")
              /\ todo' = Tail(todo)
              /\ i' = i
       ELSE Leave /\ UNCHANGED <<err, disk, content, library, nreg>>
    /\ IF i # 0 /\ todo # << >> THEN Mark("register") ELSE NoMark
    /\ UNCHANGED <<TestFixed, xml, exports, transfers>>

\* line 155
TExport ==
    /\ script = "test" /\ pc = "t_export"
    /\ xml' = library
    /\ exports' = exports + 1
    /\ disk' = disk \cup {<<"out", "", "cross_sections.xml">>}
    /\ Leave
    /\ Mark("export")
    /\ UNCHANGED <<TestFixed, err, content, library, nreg, transfers>>

\* lines 160-166: the tarball of output_dir, chdir back, and the end of
\* the with block, which removes the temporary directory
TTar ==
    /\ script = "test" /\ pc = "t_tar"
    /\ disk' = TmpGone \cup {<<"pwd", "", "nndc_hdf5_test.tar.xz">>}
    /\ content' = NoContent
    /\ Leave
    /\ Mark("tar")
    /\ UNCHANGED <<TestFixed, err, library, xml, exports, nreg, transfers>>

\* the operator runs the script again in the same directory: what is on
\* disk stays, everything in memory starts anew
Rerun ==
    /\ script = "test" /\ pc \in {"done", "aborted"}
    /\ run < MaxRuns
    /\ run' = run + 1
    /\ prev' = [completed |-> pc = "done", xml |-> xml]
    /\ pc' = TestOrder[1]
    /\ err' = ""
    /\ todo' = << >>
    /\ i' = 0
    /\ library' = << >>
    /\ exports' = 0
    /\ nreg' = 0
    /\ transfers' = 0
    /\ last' = "none"
    /\ seen' = {}
    /\ after' = {}
    /\ UNCHANGED <<script, args, files, results, task, fixin, disk, content,
                   xml>>

TestNext ==
    \/ TStart \/ TDownload \/ TExtract \/ TFix1 \/ TFix2 \/ TLibrary
    \/ TNeutron \/ TNeutronReg \/ TThermal \/ TThermalReg \/ TPhoton
    \/ TPhotonReg \/ TRename \/ TWmpReg \/ TExport \/ TTar \/ Rerun

TestInit ==
    /\ script = "test"
    /\ pc = "t_start"
    /\ files \in FileTables
    /\ disk = {}
    /\ content = NoContent

(***************************************************************************)
(* fix_zaid alone, on bounded texts.                                       *)
(***************************************************************************)
\* longest old and new handed to fix_zaid alone
MaxPat == 2

FixChars == {"0", "8"}

SeqsUpTo(n) == UNION {[1..k -> FixChars] : k \in 0..n}

\* one call fix_zaid(fixin.table, fixin.old, fixin.new)
FixCall ==
    /\ script = "fix" /\ pc = "f_call"
    /\ FixZaid(fixin.table, fixin.old, fixin.new, "f_done")
    /\ Mark("fix")
    /\ UNCHANGED <<script, args, files, todo, i, results, task, library, xml,
                   exports, nreg, run, transfers, prev, fixin>>

FixInit ==
    /\ script = "fix"
    /\ pc = "f_call"
    /\ fixin \in [table : Tables, old : SeqsUpTo(MaxPat),
                  new : SeqsUpTo(MaxPat), text : SeqsUpTo(MaxText),
                  present : BOOLEAN]
    /\ disk = IF fixin.present THEN {TslPath(fixin.table)} ELSE {}
    /\ content = [t \in Tables |->
                    IF t = fixin.table /\ fixin.present THEN fixin.text
                    ELSE << >>]

JeffInit ==
    /\ script = "jeff"
    /\ pc = "j_paths"
    /\ args \in [attrs : {NamespaceAttrs, NamespaceAttrs \cup {"release"}},
                 download : BOOLEAN, extract : BOOLEAN,
                 destination : {"None", "lib"}]
    /\ \E E \in SUBSET EvalFiles, S \in SUBSET StaleFiles :
         disk = {<<"endf", "", f>> : f \in E} \cup {<<"dest", "", f>> : f \in S}
    /\ task = [f \in EvalFiles |-> "none"]

CommonInit ==
    /\ err = ""
    /\ todo = << >>
    /\ i = 0
    /\ results = << >>
    /\ library = << >>
    /\ xml = << >>
    /\ exports = 0
    /\ nreg = 0
    /\ last = "none"
    /\ seen = {}
    /\ after = {}
    /\ run = 1
    /\ transfers = 0
    /\ prev = [completed |-> FALSE, xml |-> << >>]

NoJeff ==
    /\ args = [attrs |-> NamespaceAttrs, download |-> TRUE, extract |-> TRUE,
               destination |-> "None"]
    /\ task = [f \in EvalFiles |-> "none"]

Init ==
    /\ CommonInit
    /\ \/ JeffInit /\ files = << >> /\ content = NoContent /\ fixin = << >>
       \/ TestInit /\ NoJeff /\ fixin = << >>

Next == JeffNext \/ TestNext

Spec == Init /\ [][Next]_vars

InitFix ==
    /\ CommonInit
    /\ FixInit /\ NoJeff /\ files = << >>

SpecFix == InitFix /\ [][FixCall]_vars

(***************************************************************************)
(* The claims.                                                             *)
(***************************************************************************)
Submitted == {results[k][3] : k \in 1..Len(results)}

JeffOut(f) == <<"dest", "", H5Name(f)>>

C2_BarrierBeforeAssembly ==
    (script = "jeff"
       /\ (pc \in {"j_register", "j_export", "done"}
           \/ last \in {"register", "export"}))
        => \A f \in Submitted : Finished(f)

C2_Witness ==
    /\ script = "jeff"
    /\ last = "register"
    /\ Cardinality(Submitted) = 3
    /\ \E f \in Submitted : task[f] = "failed"
    /\ \E f \in Submitted : task[f] = "ok"

OnDisk == {p[3] : p \in {q \in disk : q[1] = "endf"}}

C4_ManifestEntriesExist ==
    (last = "export")
        => /\ Len(xml) = nreg
           /\ \A k \in 1..Len(xml) : xml[k] \in disk

C4_Witness ==
    /\ script = "test"
    /\ last = "export"
    /\ nreg >= 6
    /\ \E k \in 1..Len(xml) : xml[k][2] = "wmp"
    /\ \E k \in 1..Len(xml) : xml[k][2] = "photon"

\* C6: a second run of make_test_data after a completed one, in which no
\* download and no conversion fails, makes no network transfer, completes,
\* and exports a manifest with the registered paths of the first run.
C6_RerunReproduces ==
    (/\ script = "test" /\ files = ShippedFiles
     /\ run = 2 /\ prev.completed
     /\ pc \in {"done", "aborted"}
     /\ err \notin {"TransferError", "ConversionError"})
        => /\ pc = "done"
           /\ transfers = 0
           /\ Range(xml) = Range(prev.xml)

\* C7: in both scripts no download follows an extraction; no download,
\* extraction or fixup follows a conversion or a registration; nothing but
\* the tarball follows the export (no conversion, registration, move or
\* second export); a run that completes has exported exactly once.
C7_PhasesOrdered ==
    /\ <<"extract", "download">> \notin after
    /\ \A x \in {"fix", "convert", "register", "move", "export"} :
         \A y \in {"download", "extract"} : <<x, y>> \notin after
    /\ \A x \in {"convert", "register", "move", "export"} :
         <<x, "fix">> \notin after
    /\ \A y \in {"download", "extract", "fix", "convert", "register", "move",
                 "export"} : <<"export", y>> \notin after
    /\ exports <= 1
    /\ (pc = "done" => exports = 1)

C7_Witness ==
    /\ script = "test"
    /\ pc = "done"
    /\ {"download", "extract", "fix", "convert", "register", "move",
        "export", "tar"} \subseteq seen

Occurs(text, old, k) ==
    /\ k >= 1
    /\ k + Len(old) - 1 <= Len(text)
    /\ \A j \in 1..Len(old) : text[k + j - 1] = old[j]

Occurrences(text, old) == {k \in 1..(Len(text) + 1) : Occurs(text, old, k)}

\* C9: after fix_zaid(table, old, new) the file holds the text before the
\* call with its leftmost occurrence of old replaced by new, everything
\* before and after that occurrence as it was; a text without old is
\* written back unchanged.
C9_FirstOccurrenceOnly ==
    (script = "fix" /\ pc = "f_done")
        => LET t == fixin.text
               r == content[fixin.table]
               o == fixin.old
               n == fixin.new
               K == Occurrences(t, o)
           IN  IF K = {} THEN r = t
               ELSE LET k == CHOOSE m \in K : \A q \in K : m <= q
                    IN  /\ Len(r) = Len(t) - Len(o) + Len(n)
                        /\ \A j \in 1..(k - 1) : r[j] = t[j]
                        /\ \A j \in 1..Len(n) : r[k - 1 + j] = n[j]
                        /\ \A j \in (k + Len(o))..Len(t) :
                             r[j - Len(o) + Len(n)] = t[j]

C9_Witness ==
    /\ script = "fix"
    /\ pc = "f_done"
    /\ Len(fixin.old) = 2
    /\ fixin.new # fixin.old
    /\ Cardinality(Occurrences(fixin.text, fixin.old)) >= 2
    /\ Cardinality(Occurrences(content[fixin.table], fixin.old)) >= 1

\* C10: in make_test_data every registered path lies under the output
\* directory, and once the run has ended and the temporary directory is
\* gone, every entry of the exported manifest is still a file that exists.
C10_RegisteredUnderOutput ==
    (script = "test")
        => /\ \A k \in 1..Len(library) : library[k][1] = "out"
           /\ \A k \in 1..Len(xml) : xml[k][1] = "out"
           /\ (pc = "done" => \A k \in 1..Len(xml) : xml[k] \in disk)

C10_Witness ==
    /\ script = "test"
    /\ pc = "done"
    /\ {p \in disk : p[1] = "tmp"} = {}
    /\ {xml[k][2] : k \in 1..Len(xml)} = {"", "photon", "wmp"}

====
